---- MODULE Spec2Model ----
(***************************************************************************)
(* axios-spring: JWT lifecycle management around an axios instance.        *)
(* The model follows src/src/api.ts (the per-instance variant, lines       *)
(* 205-420) and src/src/storage.ts.  Every action is one synchronous       *)
(* segment of an async function: it starts where an await resumes and      *)
(* ends at the next await.  A storage operation takes effect when it is    *)
(* called (storage.ts: localStorage / memory back ends) and the caller     *)
(* resumes in a later step.                                                *)
(***************************************************************************)
EXTENDS Integers, Sequences, FiniteSets, TLC

(* ------------------------------ bounds --------------------------------- *)
MaxTime == 2           \* the clock runs over 0..MaxTime (seconds)
MaxBuffer == 1         \* tokenExpiryBufferSeconds ranges over 0..MaxBuffer
MaxLen == 2            \* baseUrl and path given to joinUrl have at most MaxLen characters

\* the async operations that may run concurrently: two, so that every pair of
\* operations of the public surface interleaves in every order
Procs == {1, 2}

\* every operation slot; the third one is used only where three callers matter
AllProcs == {1, 2, 3}
Instances == {"A", "B"}
Buffers == 0..MaxBuffer

(* ------------------------------ values --------------------------------- *)
\* Strings held in storage, sent or returned.  k is the shape of the string.
NoVal == [k |-> "none", exp |-> 0, id |-> 0]
EmptyStr == [k |-> "empty", exp |-> 0, id |-> 0]
Malformed == [k |-> "bad", exp |-> 0, id |-> 0]
NoExpJwt == [k |-> "noexp", exp |-> 0, id |-> 0]
CallerHeader == [k |-> "caller", exp |-> 0, id |-> 0]
Jwt(e, n) == [k |-> "jwt", exp |-> e, id |-> n]
Opaque(n) == [k |-> "opaque", exp |-> 0, id |-> n]

DefaultAccessKey == "@axios-spring-access-token"
DefaultRefreshKey == "@axios-spring-refresh-token"
Keys == {DefaultAccessKey, DefaultRefreshKey, "custom-access", "custom-refresh"}

\* JavaScript falsiness of a string | null | undefined
Falsy(v) == v.k \in {"none", "empty"}

\* a variant that reads an expiry of zero out of whatever it is given
decodeJWTLenient(token) == [ok |-> TRUE, exp |-> token.exp]

\* decodeJWT: { exp } for a decodable token with a numeric exp, else null
decodeJWT(token) ==
  IF token.k = "jwt" THEN [ok |-> TRUE, exp |-> token.exp]
                     ELSE [ok |-> FALSE, exp |-> 0]

\* the header value `Bearer ${accessToken}`
Bearer(token) == [token EXCEPT !.k = "bearer:" \o token.k]

(* --------------------------- configuration ----------------------------- *)
\* InitializeOptions after defaulting, scaled to the model's clock
Options(buffer, react, accessKey, refreshKey) ==
  [tokenExpiryBufferSeconds |-> buffer, reactOn401Responses |-> react,
   storageAccessTokenKey |-> accessKey, storageRefreshTokenKey |-> refreshKey]

(* ------------------------------- state --------------------------------- *)
VARIABLES
  store,                \* the Storage back end: key -> string or null
  now,                  \* Math.floor(Date.now() / 1000)
  cfg,                  \* instance -> its options
  isRefreshing,         \* instance -> refreshingStateMap.get(API).isRefreshing
  failedRequestsQueue,  \* instance -> queue of waiters (the waiting calls)
  proc,                 \* async operation -> its position and local variables
  posts,                \* history: number of axios.post calls to the refresh endpoint
  failures,             \* history: number of refreshes that settled with an error
  callbackCalls,        \* number of onRefreshFailure invocations
  sameToken,            \* history: every operation so far is a caller that read the
                        \* initial, stale access token, and no refresh has failed
  sharedFuture,         \* instance -> state of the one promise all waiters would
                        \* attach to in the shared-promise design of the gate
  lastOk,               \* history: number of the refresh token stored by the most
                        \* recent refresh that succeeded (0: the initial one)
  url                   \* a call of joinUrl: its arguments and its result

vars == <<store, now, cfg, isRefreshing, failedRequestsQueue, proc, posts,
          failures, callbackCalls, sameToken, sharedFuture, lastOk, url>>

NoResult == [kind |-> "none", exp |-> 0, status |-> 0, attempt |-> 0, sends |-> 0,
             via |-> "none"]

\* pc, op, api: position, operation and instance of the call
\* site, buf, tok: ensureFreshAccessToken's caller, bufferSeconds and accessToken
\* rtok, newA, newR: refreshAuthToken's refreshToken, accessToken, newRefreshToken
\* wst, wval, werr: the waiter's promise (werr is also the error the refresher
\* caught); ret: what ensureFreshAccessToken returned
\* hdr, retry: the request's Authorization header and _retry marker
\* error: the send whose 401 the response handler is handling
\* sends: how often the request was sent; history: path and tl
\* (the gate's decision), cause, body, rw (the refresh's failure cause, the
\* endpoint's answer, its storage writes), expect (what the refresher returned),
\* held (storage held the endpoint's pair when the refresh returned), clob
\* (setAuthTokens / deleteAuthTokens wrote a key after the refresh wrote it),
\* cbErr (the error onRefreshFailure was called with when this refresh failed,
\* or when the refresh this waiter waited for failed), prev (the operations
\* that had completed, with nothing else running, when this one was called)
IdleProc ==
  [pc |-> "idle", op |-> "none", api |-> "A", site |-> "none", buf |-> 0,
   tok |-> NoVal, rtok |-> NoVal, newA |-> NoVal, newR |-> NoVal,
   wst |-> "none", wval |-> NoVal, werr |-> "none",
   ret |-> NoVal, hdr |-> NoVal, retry |-> FALSE, sends |-> 0,
   error |-> 0, argA |-> NoVal, argR |-> NoVal, result |-> NoResult,
   path |-> "none", tl |-> 0, cause |-> "none",
   body |-> [accessToken |-> NoVal, refreshToken |-> NoVal], rw |-> <<>>,
   expect |-> NoVal, held |-> FALSE, clob |-> FALSE, cbErr |-> "none",
   prev |-> {}, by |-> "none", qpos |-> 0, rank |-> 0, estatus |-> 0,
   hdr1 |-> NoVal, got |-> NoVal,
   fpath |-> "none", fst |-> "none", fret |-> NoVal, loggedOut |-> FALSE]

AccessKey(i) == cfg[i].storageAccessTokenKey

\* a variant that keeps the refresh token under the access token's key
RefreshKeyAsAccessKey(i) == cfg[i].storageAccessTokenKey

RefreshKey(i) == cfg[i].storageRefreshTokenKey

(* ------------------------------ storage -------------------------------- *)
\* a variant that answers from an empty cache
getItemMissing(key) == NoVal

getItem(key) == store[key]

\* a variant that loses the write
setItemDropped(st, key, value) == st

setItem(st, key, value) == [st EXCEPT ![key] = value]

\* a variant that leaves the entry in place
removeItemKept(st, key) == st

removeItem(st, key) == [st EXCEPT ![key] = NoVal]

(* --------------------- decisions taken by the code --------------------- *)
\* a variant without the two null returns
GateReturnsNullNever(accessToken) == FALSE

\* ensureFreshAccessToken: `if (!accessToken) return null` and
\* `if (!decoded) return null`
GateReturnsNull(accessToken) == Falsy(accessToken) \/ ~decodeJWT(accessToken).ok

\* a variant that also skips the refresh at the boundary
TokenIsFreshAtBoundary(timeLeft, bufferSeconds) == timeLeft >= bufferSeconds

\* a variant that returns every decodable token as it is
TokenIsFreshAlways(timeLeft, bufferSeconds) == TRUE

\* ensureFreshAccessToken: `if (timeLeft > bufferSeconds) return accessToken`
TokenIsFresh(timeLeft, bufferSeconds) == timeLeft > bufferSeconds

\* a variant without the isRefreshing test
MayStartRefreshAlways(refreshing) == TRUE

\* a variant that never starts a refresh
MayStartRefreshNever(refreshing) == FALSE

\* ensureFreshAccessToken: `if (!state.isRefreshing)`
MayStartRefresh(refreshing) == ~refreshing

\* a variant that accepts an empty refresh token
NoRefreshTokenNullOnly(refreshToken) == refreshToken.k = "none"

\* refreshAuthToken: `if (!refreshToken) throw new Error('No refresh token available')`
NoRefreshToken(refreshToken) == Falsy(refreshToken)

\* a variant that validates the access token only
InvalidPairAccessOnly(accessToken, newRefreshToken) == Falsy(accessToken)

\* refreshAuthToken: `if (!accessToken || !newRefreshToken) throw`
InvalidPair(accessToken, newRefreshToken) ==
  Falsy(accessToken) \/ Falsy(newRefreshToken)

\* refreshAuthToken: the two setItem calls, as <<key, value>>
FirstWrite(accessKey, refreshKey, accessToken, newRefreshToken) ==
  <<accessKey, accessToken>>
\* a variant that stores the refresh token under the access key
SecondWriteSameKey(accessKey, refreshKey, accessToken, newRefreshToken) ==
  <<accessKey, newRefreshToken>>

\* a variant that never stores the new refresh token
SecondWriteAccessAgain(accessKey, refreshKey, accessToken, newRefreshToken) ==
  <<accessKey, accessToken>>

SecondWrite(accessKey, refreshKey, accessToken, newRefreshToken) ==
  <<refreshKey, newRefreshToken>>

\* a variant that leaves the request as it is
attachNothing(header, accessToken) == header

\* a variant that keeps an Authorization header the request already has
attachKeepExisting(header, accessToken) ==
  IF header.k = "none" THEN Bearer(accessToken) ELSE header

\* the default attachAccessTokenToRequest: the Authorization header it sets
attachAccessTokenToRequest(header, accessToken) == Bearer(accessToken)

\* a variant that attaches whatever the gate returned
RequestHeaderUnconditional(header, accessToken) ==
  attachAccessTokenToRequest(header, accessToken)

\* request interceptor: `if (accessToken) attachAccessTokenToRequest(...)`
RequestHeader(header, accessToken) ==
  IF ~Falsy(accessToken) THEN attachAccessTokenToRequest(header, accessToken)
                         ELSE header

\* a variant that ignores the _retry marker
ReactsOn401Unmarked(status, retried) == status = 401

\* a variant that reacts on every error of a request not yet retried
ReactsOn401AnyStatus(status, retried) == ~retried

\* response interceptor: `error.response?.status === 401 && !originalRequest._retry`
ReactsOn401(status, retried) == status = 401 /\ ~retried

\* a variant that resubmits whatever the gate returned
ResubmitsAlways(token) == TRUE

\* response interceptor: `if (token) { ...; return API(originalRequest) }`
Resubmits(token) == ~Falsy(token)

\* a variant that resolves the waiters without the token
ResolvedValueNull(newAccessToken) == NoVal

\* ensureFreshAccessToken, success: what `resolve(newAccessToken)` hands each waiter
ResolvedValue(newAccessToken) == newAccessToken

\* a variant that leaves the waiters in the queue
QueueAfterSettleKept(queue) == queue

\* ensureFreshAccessToken, try and catch: `state.failedRequestsQueue = []`
QueueAfterSettle(queue) == <<>>

\* a variant without the finally block
IsRefreshingAfterSettleStuck == TRUE

\* ensureFreshAccessToken, finally: `state.isRefreshing = false`
IsRefreshingAfterSettle == FALSE

\* a variant that invokes the callback for the refresher and for every waiter
CallbackInvocationsPerCaller(waiters) == 1 + Cardinality(waiters)

\* catch branch, after the queue is cleared: onRefreshFailure is invoked once
\* per failed refresh, however many waiters there are
CallbackInvocations(waiters) == 1

\* a variant that hands the callback a fresh, generic error
CallbackArgGeneric(err) == "RefreshFailed"

\* catch branch: onRefreshFailure receives the error that was caught
CallbackArg(err) == err

\* a variant in which the wait also ends on its own
PromiseSettledOrTimedOut(state) == TRUE

\* the waiter's `await new Promise(...)` continues once resolve or reject ran
PromiseSettled(state) == state \in {"resolved", "rejected"}

\* the waiter's `await new Promise(...)` inside try / catch
WaiterReturn(state, value) == IF state = "resolved" THEN value ELSE NoVal

\* a variant that reports claims for whatever the gate returned
AuthResultUnchecked(accessToken) ==
  [NoResult EXCEPT !.kind = "claims", !.exp = accessToken.exp]

\* a variant that reports null for whatever the gate returned
AuthResultNull(accessToken) == [NoResult EXCEPT !.kind = "null"]

\* isAuthenticated: `if (!accessToken) return null; return decodeJWT(..) ?? null`
AuthResult(accessToken) ==
  IF ~Falsy(accessToken) /\ decodeJWT(accessToken).ok
  THEN [NoResult EXCEPT !.kind = "claims", !.exp = decodeJWT(accessToken).exp]
  ELSE [NoResult EXCEPT !.kind = "null"]

(* ------------------------------ inputs --------------------------------- *)
\* an expiry that leaves more than every buffer at every time of the model
NewTokenExp == MaxTime + MaxBuffer + 1
LongLived == Jwt(NewTokenExp, 0)
\* what an earlier session may have left in storage: <<access, refresh>>
InitPairs == { <<NoVal, NoVal>>, <<Jwt(1, 0), Opaque(0)>>,
               <<Jwt(1, 0), NoVal>>, <<Malformed, Opaque(0)>>,
               <<NoVal, Opaque(0)>>, <<NoExpJwt, Opaque(0)>> }
SetAccessInputs == {Jwt(1, 0), LongLived}
SetRefreshInputs == {Opaque(0), EmptyStr}
CallerHeaders == {NoVal, CallerHeader}

\* bodies the refresh endpoint may answer with on its n-th call at time t
ResponseBodies(n, t) ==
  { [accessToken |-> Jwt(NewTokenExp, n), refreshToken |-> Opaque(n)],
    [accessToken |-> Jwt(NewTokenExp, n), refreshToken |-> NoVal],
    [accessToken |-> NoVal, refreshToken |-> Opaque(n)] }

(* ------------------- the gate with one shared promise ------------------- *)
\* The design in which a refresh creates one promise, every caller that finds
\* it pending awaits it, and it is settled once when the refresh ends.  It is
\* run side by side with the code's queue, on the same calls and schedule.
NoFuture == [st |-> "none", calls |-> 0]

\* what a caller does in that design: the null and fresh returns are those of
\* the code; a stale token makes the caller await the pending promise, or
\* create it and refresh
FutureDecision(accessToken, timeLeft, bufferSeconds, future) ==
  IF GateReturnsNull(accessToken) THEN "null"
  ELSE IF TokenIsFresh(timeLeft, bufferSeconds) THEN "fresh"
  ELSE IF future.st = "pending" THEN "wait"
  ELSE "refresh"

\* the promise is created by the caller that refreshes
FutureAfterDecision(futures, i, d) ==
  IF d = "refresh" THEN [futures EXCEPT ![i].st = "pending"] ELSE futures

\* the caller's record in that design after its decision d
FutureCaller(s, d) ==
  [s EXCEPT !.fpath = d,
            !.fst = IF d = "wait" THEN "pending" ELSE "none",
            !.fret = IF d = "fresh" THEN s.tok ELSE NoVal]

\* the decision of the caller s
FutureOf(s) ==
  FutureDecision(s.tok, decodeJWT(s.tok).exp - now, s.buf, sharedFuture[s.api])

\* the promise settles with value (null when the refresh failed): whoever awaits
\* it on instance i returns value
FutureSettles(r, i, value) ==
  IF r.fst = "pending" /\ r.api = i
  THEN [r EXCEPT !.fst = "settled", !.fret = value]
  ELSE r

(* -------------------------------- joinUrl ------------------------------ *)
\* strings are sequences of characters
Slash == "/"
Chars == {Slash, "a", "b"}
Strings(n) == UNION {[1..k -> Chars] : k \in 0..n}

\* String.prototype.endsWith / startsWith for a one-character argument
endsWith(str, c) == Len(str) > 0 /\ str[Len(str)] = c
startsWith(str, c) == Len(str) > 0 /\ str[1] = c

\* a variant that concatenates its arguments as they are
joinUrlConcat(baseUrl, path) == baseUrl \o path

\* joinUrl: `if (!baseUrl.endsWith('/')) baseUrl += '/'`,
\* `if (path.startsWith('/')) path = path.slice(1)`, `return baseUrl + path`
joinUrl(baseUrl, path) ==
  LET b == IF ~endsWith(baseUrl, Slash) THEN baseUrl \o <<Slash>> ELSE baseUrl
      q == IF startsWith(path, Slash) THEN Tail(path) ELSE path
  IN b \o q

\* no call of joinUrl is looked at
NoUrl == [pc |-> "none", baseUrl |-> <<>>, path |-> <<>>, out |-> <<>>]

\* the calls looked at: a baseUrl with at most one trailing slash and a path with
\* at most one leading slash
UrlInputs ==
  {[pc |-> "called", baseUrl |-> b, path |-> q, out |-> <<>>] :
     b \in {x \in Strings(MaxLen) : ~(endsWith(x, Slash) /\ endsWith(SubSeq(x, 1, Len(x) - 1), Slash))},
     q \in {x \in Strings(MaxLen) : ~(startsWith(x, Slash) /\ startsWith(Tail(x), Slash))}}

(* ------------------------------- Init ---------------------------------- *)
InitWith(reacts) ==
  /\ \E pair \in InitPairs :
       store = [k \in Keys |->
                  IF k = DefaultAccessKey THEN pair[1]
                  ELSE IF k = DefaultRefreshKey THEN pair[2]
                  ELSE Opaque(0)]
  /\ now = 0
  /\ \E b \in Buffers, react \in reacts :
       cfg = [i \in Instances |->
                IF i = "A"
                THEN Options(b, react, DefaultAccessKey, DefaultRefreshKey)
                ELSE Options(MaxBuffer, TRUE, DefaultAccessKey, DefaultRefreshKey)]
  /\ isRefreshing = [i \in Instances |-> FALSE]
  /\ failedRequestsQueue = [i \in Instances |-> <<>>]
  /\ proc = [p \in AllProcs |-> IdleProc]
  /\ posts = 0
  /\ failures = 0
  /\ callbackCalls = 0
  /\ sameToken = TRUE
  /\ sharedFuture = [i \in Instances |-> NoFuture]
  /\ lastOk = 0

\* reactOn401Responses at its default; no call of joinUrl is looked at
Init == InitWith({TRUE}) /\ url = NoUrl

(* ------------------------------ helpers -------------------------------- *)
\* a variant with one refresh state for the whole module
StateOfShared(i) == "A"

\* `refreshingStateMap.get(API)!`: the entry of the instance the caller is on
StateOf(i) == i

IndexOf(queue, q) == CHOOSE n \in 1..Len(queue) : queue[n] = q

\* a variant that settles the queue from its end
ReleaseRankReversed(queue, q) == Len(queue) + 1 - IndexOf(queue, q)

\* `state.failedRequestsQueue.forEach(...)`: the place of q in the order in which
\* the entries are settled
ReleaseRank(queue, q) == IndexOf(queue, q)

Upd(p, r) == proc' = [proc EXCEPT ![p] = r]

Range(q) == {q[n] : n \in 1..Len(q)}

\* operations are started in the order of their numbers (they are interchangeable)
MayStart(p) == proc[p].pc = "idle" /\ \A q \in AllProcs : q < p => proc[q].pc # "idle"

\* a call of ensureFreshAccessToken up to its first await:
\* `let accessToken = await Storage.getItem(accessKey)`
EnterGate(s, site, bufferSeconds) ==
  [s EXCEPT !.site = site, !.buf = bufferSeconds,
            !.tok = getItem(AccessKey(s.api)),
            !.pc = "g_decide", !.path = "none", !.tl = 0,
            !.ret = NoVal, !.rtok = NoVal, !.newA = NoVal, !.newR = NoVal,
            !.wst = "none", !.wval = NoVal, !.werr = "none",
            !.cause = "none", !.rw = <<>>, !.expect = NoVal,
            !.body = IdleProc.body, !.held = FALSE, !.clob = FALSE,
            !.cbErr = "none", !.by = "none", !.qpos = 0, !.rank = 0,
            !.fpath = "none", !.fst = "none", !.fret = NoVal,
            !.loggedOut = FALSE]

\* ensureFreshAccessToken returns: the awaiting caller resumes in a later step
ReturnFromGate(s, value) ==
  [s EXCEPT !.ret = value, !.pc = "g_ret", !.tok = NoVal, !.rtok = NoVal]

\* the operation's promise settles with res
Finish(s, res) ==
  [IdleProc EXCEPT !.pc = "done", !.op = s.op, !.api = s.api, !.prev = s.prev,
                   !.result = [res EXCEPT !.sends = s.sends]]

\* the operations that have completed when p is called with nothing else running
Preceding(p) ==
  IF \A q \in Procs \ {p} : proc[q].pc = "done"
  THEN {proc[q].op : q \in Procs \ {p}}
  ELSE {}

\* a caller that read the initial access token while it was already stale
ReadsStaleInitial(i) ==
  LET t == getItem(AccessKey(i))
  IN t.k = "jwt" /\ t.id = 0 /\ t.exp <= cfg[i].tokenExpiryBufferSeconds

\* history: the operation p writes key; a refresh of another operation that has
\* written that key and has not yet returned is marked
WriteBy(p, r, key) ==
  proc' = [q \in AllProcs |->
             IF q = p THEN r
             ELSE IF /\ proc[q].pc \in {"r_w1", "r_w2"}
                     /\ \E n \in 1..Len(proc[q].rw) : proc[q].rw[n][1] = key
                  THEN [proc[q] EXCEPT !.clob = TRUE]
                  ELSE proc[q]]

(* --------------------------- public surface ---------------------------- *)
\* API.isAuthenticated() is called: runs up to the gate's first await
IsAuthCall(p, i) ==
  /\ MayStart(p)
  /\ Upd(p, EnterGate([proc[p] EXCEPT !.op = "isAuth", !.api = i,
                                      !.prev = Preceding(p)],
                      "isAuth", cfg[i].tokenExpiryBufferSeconds))
  /\ sameToken' = (sameToken /\ ReadsStaleInitial(i))
  /\ UNCHANGED <<store, now, cfg, url, lastOk, isRefreshing, sharedFuture, failedRequestsQueue, posts, failures, callbackCalls>>

\* isAuthenticated resumes with the gate's result
IsAuthReturn(p) ==
  /\ proc[p].pc = "g_ret" /\ proc[p].site = "isAuth"
  /\ Upd(p, Finish(proc[p], AuthResult(proc[p].ret)))
  /\ UNCHANGED <<store, now, cfg, url, lastOk, isRefreshing, sharedFuture, failedRequestsQueue, posts,
                 failures, callbackCalls, sameToken>>

\* API.setAuthTokens(a, r): `await Storage.setItem(accessKey, accessToken)`
SetCall(p, i, a, r) ==
  /\ MayStart(p)
  /\ store' = setItem(store, AccessKey(i), a)
  /\ WriteBy(p, [proc[p] EXCEPT !.op = "set", !.api = i, !.argA = a, !.argR = r,
                                  !.prev = Preceding(p), !.pc = "s_w1"],
             AccessKey(i))
  /\ sameToken' = FALSE
  /\ UNCHANGED <<now, cfg, url, lastOk, isRefreshing, sharedFuture, failedRequestsQueue, posts, failures, callbackCalls>>

\* `await Storage.setItem(refreshKey, refreshToken)`
SetSecond(p) ==
  /\ proc[p].pc = "s_w1"
  /\ store' = setItem(store, RefreshKey(proc[p].api), proc[p].argR)
  /\ WriteBy(p, [proc[p] EXCEPT !.pc = "s_w2"], RefreshKey(proc[p].api))
  /\ UNCHANGED <<now, cfg, url, lastOk, isRefreshing, sharedFuture, failedRequestsQueue, posts, failures, callbackCalls,
                 sameToken>>

SetReturn(p) ==
  /\ proc[p].pc = "s_w2"
  /\ Upd(p, Finish([proc[p] EXCEPT !.prev = {}], [NoResult EXCEPT !.kind = "void"]))
  /\ UNCHANGED <<store, now, cfg, url, lastOk, isRefreshing, sharedFuture, failedRequestsQueue, posts,
                 failures, callbackCalls, sameToken>>

\* API.deleteAuthTokens(): `await Storage.removeItem(accessKey)`
DeleteCall(p, i) ==
  /\ MayStart(p)
  /\ store' = removeItem(store, AccessKey(i))
  /\ WriteBy(p, [proc[p] EXCEPT !.op = "delete", !.api = i, !.pc = "d_w1"],
             AccessKey(i))
  /\ sameToken' = FALSE
  /\ UNCHANGED <<now, cfg, url, lastOk, isRefreshing, sharedFuture, failedRequestsQueue, posts, failures, callbackCalls>>

\* `await Storage.removeItem(refreshKey)`
DeleteSecond(p) ==
  /\ proc[p].pc = "d_w1"
  /\ store' = removeItem(store, RefreshKey(proc[p].api))
  /\ WriteBy(p, [proc[p] EXCEPT !.pc = "d_w2"], RefreshKey(proc[p].api))
  /\ UNCHANGED <<now, cfg, url, lastOk, isRefreshing, sharedFuture, failedRequestsQueue, posts, failures, callbackCalls,
                 sameToken>>

\* history: deleteAuthTokens completes while the refresh of r is in flight
RefreshInFlight(r) ==
  r.path = "refresh" /\ r.pc \in {"r_gotrt", "r_net", "r_w1", "r_w2"}

DeleteReturn(p) ==
  /\ proc[p].pc = "d_w2"
  /\ proc' = [q \in AllProcs |->
               IF q = p THEN Finish(proc[p], [NoResult EXCEPT !.kind = "void"])
               ELSE IF RefreshInFlight(proc[q])
                    THEN [proc[q] EXCEPT !.loggedOut = TRUE]
                    ELSE proc[q]]
  /\ UNCHANGED <<store, now, cfg, url, lastOk, isRefreshing, sharedFuture, failedRequestsQueue, posts,
                 failures, callbackCalls, sameToken>>

(* ------------------------ ensureFreshAccessToken ----------------------- *)
\* `if (!accessToken) return null` and `if (!decoded) return null`
GateNoToken(p) ==
  /\ proc[p].pc = "g_decide"
  /\ GateReturnsNull(proc[p].tok)
  /\ Upd(p, ReturnFromGate([FutureCaller(proc[p], FutureOf(proc[p]))
                              EXCEPT !.path = "null"], NoVal))
  /\ sharedFuture' = FutureAfterDecision(sharedFuture, proc[p].api, FutureOf(proc[p]))
  /\ UNCHANGED <<store, now, cfg, url, lastOk, isRefreshing, failedRequestsQueue, posts,
                 failures, callbackCalls, sameToken>>

\* `if (timeLeft > bufferSeconds) return accessToken`
GateFresh(p) ==
  LET s == proc[p]
      timeLeft == decodeJWT(s.tok).exp - now
  IN /\ s.pc = "g_decide"
     /\ ~GateReturnsNull(s.tok)
     /\ TokenIsFresh(timeLeft, s.buf)
     /\ Upd(p, ReturnFromGate([FutureCaller(s, FutureOf(s))
                                 EXCEPT !.path = "fresh", !.tl = timeLeft], s.tok))
     /\ sharedFuture' = FutureAfterDecision(sharedFuture, s.api, FutureOf(s))
     /\ UNCHANGED <<store, now, cfg, url, lastOk, isRefreshing, failedRequestsQueue, posts,
                    failures, callbackCalls, sameToken>>

\* `if (!state.isRefreshing) { state.isRefreshing = true; ... refreshAuthToken(`
\* which runs up to `await Storage.getItem(storageRefreshTokenKey)`
GateStartRefresh(p) ==
  LET s == proc[p]
      i == s.api
      st == StateOf(i)
      timeLeft == decodeJWT(s.tok).exp - now
  IN /\ s.pc = "g_decide"
     /\ ~GateReturnsNull(s.tok)
     /\ ~TokenIsFresh(timeLeft, s.buf)
     /\ MayStartRefresh(isRefreshing[st])
     /\ isRefreshing' = [isRefreshing EXCEPT ![st] = TRUE]
     /\ Upd(p, [FutureCaller(s, FutureOf(s))
                  EXCEPT !.path = "refresh", !.tl = timeLeft,
                         !.rtok = getItem(RefreshKey(i)), !.pc = "r_gotrt"])
     /\ sharedFuture' = FutureAfterDecision(sharedFuture, i, FutureOf(s))
     /\ UNCHANGED <<store, now, cfg, url, lastOk, failedRequestsQueue, posts, failures, callbackCalls, sameToken>>

\* `else { accessToken = await new Promise((resolve, reject) => queue.push(...`
GateEnqueue(p) ==
  LET s == proc[p]
      st == StateOf(s.api)
      timeLeft == decodeJWT(s.tok).exp - now
  IN /\ s.pc = "g_decide"
     /\ ~GateReturnsNull(s.tok)
     /\ ~TokenIsFresh(timeLeft, s.buf)
     /\ ~MayStartRefresh(isRefreshing[st])
     /\ failedRequestsQueue' =
          [failedRequestsQueue EXCEPT ![st] = Append(@, p)]
     /\ Upd(p, [FutureCaller(s, FutureOf(s))
                  EXCEPT !.path = "wait", !.tl = timeLeft, !.wst = "pending",
                         !.qpos = Len(failedRequestsQueue[st]) + 1,
                         !.pc = "g_wait"])
     /\ sharedFuture' = FutureAfterDecision(sharedFuture, s.api, FutureOf(s))
     /\ UNCHANGED <<store, now, cfg, url, lastOk, isRefreshing, posts, failures, callbackCalls, sameToken>>

\* the waiter's promise has been settled: `return accessToken` / `catch { return null }`
WaiterResume(p) ==
  /\ proc[p].pc = "g_wait" /\ PromiseSettled(proc[p].wst)
  /\ Upd(p, ReturnFromGate(proc[p], WaiterReturn(proc[p].wst, proc[p].wval)))
  /\ UNCHANGED <<store, now, cfg, url, lastOk, isRefreshing, sharedFuture, failedRequestsQueue, posts,
                 failures, callbackCalls, sameToken>>

\* the refresh succeeded.  try: resolve every waiter, clear the queue, return
\* the new token; finally: isRefreshing = false
SettleOk(p) ==
  LET s == proc[p]
      i == s.api
      st == StateOf(i)
      waiters == Range(failedRequestsQueue[st])
      holds == /\ getItem(AccessKey(i)) = s.body.accessToken
               /\ getItem(RefreshKey(i)) = s.body.refreshToken
  IN /\ proc' = [q \in AllProcs |->
                   IF q = p THEN ReturnFromGate([s EXCEPT !.held = holds,
                                                          !.fret = s.newA], s.newA)
                   ELSE FutureSettles(
                          IF q \in waiters
                          THEN [proc[q] EXCEPT !.wst = "resolved",
                                               !.wval = ResolvedValue(s.newA),
                                               !.expect = s.newA, !.by = i,
                                               !.rank = ReleaseRank(failedRequestsQueue[st], q)]
                          ELSE proc[q],
                          i, s.newA)]
     /\ sharedFuture' = [sharedFuture EXCEPT ![i].st = "none"]
     /\ lastOk' = s.body.refreshToken.id
     /\ failedRequestsQueue' = [failedRequestsQueue EXCEPT ![st] = QueueAfterSettle(@)]
     /\ isRefreshing' = [isRefreshing EXCEPT ![st] = IsRefreshingAfterSettle]
     /\ UNCHANGED <<failures, callbackCalls, sameToken>>

\* the refresh threw err.  catch: reject every waiter, clear the queue, invoke
\* onRefreshFailure (when one is configured; here it is), return null;
\* finally: isRefreshing = false
SettleFail(p, err, cause) ==
  LET s == proc[p]
      i == s.api
      st == StateOf(i)
      waiters == Range(failedRequestsQueue[st])
  IN /\ proc' = [q \in AllProcs |->
                   IF q = p THEN ReturnFromGate([s EXCEPT !.cause = cause,
                                                          !.werr = err,
                                                          !.cbErr = CallbackArg(err)],
                                                NoVal)
                   ELSE FutureSettles(
                          IF q \in waiters
                          THEN [proc[q] EXCEPT !.wst = "rejected", !.werr = err,
                                               !.expect = NoVal,
                                               !.cbErr = CallbackArg(err), !.by = i,
                                               !.rank = ReleaseRank(failedRequestsQueue[st], q)]
                          ELSE proc[q],
                          i, NoVal)]
     /\ sharedFuture' = [sharedFuture EXCEPT ![i].st = "none"]
     /\ failedRequestsQueue' = [failedRequestsQueue EXCEPT ![st] = QueueAfterSettle(@)]
     /\ isRefreshing' = [isRefreshing EXCEPT ![st] = IsRefreshingAfterSettle]
     /\ failures' = failures + 1
     /\ callbackCalls' = callbackCalls + CallbackInvocations(waiters)
     /\ sameToken' = FALSE

(* --------------------------- refreshAuthToken -------------------------- *)
\* `if (!refreshToken) throw new Error('No refresh token available')`,
\* caught by ensureFreshAccessToken
RefreshNoToken(p) ==
  /\ proc[p].pc = "r_gotrt" /\ NoRefreshToken(proc[p].rtok)
  /\ SettleFail(p, "NoRefreshToken", "noRefreshToken")
  /\ UNCHANGED <<store, now, cfg, url, lastOk, posts>>

\* `const response = await axios.post(refreshEndpointUrl, { refreshToken })`
RefreshPost(p) ==
  /\ proc[p].pc = "r_gotrt" /\ ~NoRefreshToken(proc[p].rtok)
  /\ Upd(p, [proc[p] EXCEPT !.pc = "r_net"])
  /\ posts' = posts + 1
  /\ sharedFuture' =
       [sharedFuture EXCEPT ![proc[p].api].calls =
                              @ + (IF proc[p].fpath = "refresh" THEN 1 ELSE 0)]
  /\ UNCHANGED <<store, now, cfg, url, lastOk, isRefreshing, failedRequestsQueue, failures, callbackCalls,
                 sameToken>>

\* axios.post rejects (a transport failure or a non-2xx status); caught by
\* ensureFreshAccessToken
RefreshTransportError(p) ==
  /\ proc[p].pc = "r_net"
  /\ SettleFail(p, "Transport", "transport")
  /\ UNCHANGED <<store, now, cfg, url, lastOk, posts>>

\* a 2xx answer: `if (!accessToken || !newRefreshToken) throw new Error(...)`
RefreshInvalidResponse(p, body) ==
  /\ proc[p].pc = "r_net"
  /\ InvalidPair(body.accessToken, body.refreshToken)
  /\ SettleFail(p, "InvalidResponse", "invalidResponse")
  /\ UNCHANGED <<store, now, cfg, url, lastOk, posts>>

\* a 2xx answer that passes: `await Storage.setItem(storageAccessTokenKey, accessToken)`
RefreshStoreAccess(p, body) ==
  LET s == proc[p]
      w == FirstWrite(AccessKey(s.api), RefreshKey(s.api),
                      body.accessToken, body.refreshToken)
  IN /\ s.pc = "r_net"
     /\ ~InvalidPair(body.accessToken, body.refreshToken)
     /\ store' = setItem(store, w[1], w[2])
     /\ Upd(p, [s EXCEPT !.newA = body.accessToken, !.newR = body.refreshToken,
                         !.body = body, !.rw = Append(@, w), !.pc = "r_w1",
                         !.cause = IF Falsy(body.accessToken) \/ Falsy(body.refreshToken)
                                   THEN "invalidResponse" ELSE "none"])
     /\ UNCHANGED <<now, cfg, url, lastOk, isRefreshing, sharedFuture, failedRequestsQueue, posts, failures, callbackCalls,
                    sameToken>>

\* `await Storage.setItem(storageRefreshTokenKey, newRefreshToken)`
RefreshStoreRefresh(p) ==
  LET s == proc[p]
      w == SecondWrite(AccessKey(s.api), RefreshKey(s.api), s.newA, s.newR)
  IN /\ s.pc = "r_w1"
     /\ store' = setItem(store, w[1], w[2])
     /\ Upd(p, [s EXCEPT !.rw = Append(@, w), !.pc = "r_w2"])
     /\ UNCHANGED <<now, cfg, url, lastOk, isRefreshing, sharedFuture, failedRequestsQueue, posts, failures, callbackCalls,
                    sameToken>>

\* `return { accessToken, refreshToken: newRefreshToken }`, and
\* ensureFreshAccessToken continues after its await
RefreshReturn(p) ==
  /\ proc[p].pc = "r_w2"
  /\ SettleOk(p)
  /\ UNCHANGED <<store, now, cfg, url, posts>>

(* ------------------------- request interceptor ------------------------- *)
\* API.get(...) with the caller's own headers h: the request interceptor runs
\* up to the gate's first await
RequestCall(p, i, h) ==
  /\ MayStart(p)
  /\ Upd(p, EnterGate([proc[p] EXCEPT !.op = "request", !.api = i, !.hdr = h],
                      "reqInt", cfg[i].tokenExpiryBufferSeconds))
  /\ sameToken' = (sameToken /\ ReadsStaleInitial(i))
  /\ UNCHANGED <<store, now, cfg, url, lastOk, isRefreshing, sharedFuture, failedRequestsQueue, posts, failures, callbackCalls>>

\* the interceptor resumes, attaches the token if any, and the request is sent
ReqIntReturn(p) ==
  LET s == proc[p]
      h == RequestHeader(s.hdr, s.ret)
  IN /\ s.pc = "g_ret" /\ s.site = "reqInt"
     /\ Upd(p, [s EXCEPT !.hdr = h, !.sends = @ + 1, !.pc = "sent",
                         !.hdr1 = IF s.sends = 0 THEN h ELSE @,
                         !.newA = NoVal, !.newR = NoVal, !.wst = "none",
                         !.wval = NoVal, !.werr = "none", !.cause = "none",
                         !.rw = <<>>, !.expect = NoVal, !.body = IdleProc.body,
                         !.held = FALSE, !.clob = FALSE, !.cbErr = "none",
                         !.by = "none", !.qpos = 0, !.rank = 0,
                         !.fpath = "none", !.fst = "none", !.fret = NoVal,
            !.loggedOut = FALSE])
     /\ UNCHANGED <<store, now, cfg, url, lastOk, isRefreshing, sharedFuture, failedRequestsQueue, posts,
                    failures, callbackCalls, sameToken>>

(* ------------------------- response interceptor ------------------------ *)
\* a variant in which the 401 handler applies a positive buffer
BufferOn401Positive == MaxBuffer

\* the bufferSeconds the 401 handler passes to ensureFreshAccessToken
BufferOn401 == 0

\* the statuses of failed requests: unauthorized, a server error, and 0 for an
\* error without a response (`error.response` undefined)
ErrorStatuses == {401, 500, 0}

\* a variant that registers the response handler whatever the option says
HandlerRegisteredAlways(react) == TRUE

\* `if (reactOn401Responses) { API.interceptors.response.use(...) }`
HandlerRegistered(react) == react

\* a variant with one marker for all requests
RetryMarkerShared(p) == \E q \in AllProcs : proc[q].retry

\* `originalRequest._retry`, a property of the failed request's own config
RetryMarker(p) == proc[p].retry

\* `(response) => response`
Response2xx(p) ==
  LET s == proc[p]
  IN /\ s.pc = "sent"
     /\ Upd(p, Finish(s, [NoResult EXCEPT !.kind = "response", !.status = 200,
                                         !.attempt = s.sends, !.via = "passed"]))
     /\ UNCHANGED <<store, now, cfg, url, lastOk, isRefreshing, sharedFuture, failedRequestsQueue, posts,
                    failures, callbackCalls, sameToken>>

\* an error the handler does not react on (one that is not a 401, or has no
\* response), or any error without a handler: `return Promise.reject(error)`
ResponseOtherError(p) ==
  LET s == proc[p]
  IN /\ s.pc = "sent"
     /\ \E status \in ErrorStatuses \ {401} :
          /\ ~(HandlerRegistered(cfg[s.api].reactOn401Responses)
                 /\ ReactsOn401(status, RetryMarker(p)))
          /\ Upd(p, Finish(s, [NoResult EXCEPT !.kind = "rejected", !.status = status,
                                              !.attempt = s.sends, !.via = "passed"]))
     /\ UNCHANGED <<store, now, cfg, url, lastOk, isRefreshing, sharedFuture, failedRequestsQueue, posts,
                    failures, callbackCalls, sameToken>>

\* an error the handler reacts on (a 401 of a request not yet retried):
\* `originalRequest._retry = true` and `await ensureFreshAccessToken(API, ..., 0)`
\* up to the gate's first await
Response401React(p) ==
  LET s == proc[p]
  IN /\ s.pc = "sent"
     /\ \E status \in ErrorStatuses :
          /\ HandlerRegistered(cfg[s.api].reactOn401Responses)
          /\ ReactsOn401(status, RetryMarker(p))
          /\ Upd(p, EnterGate([s EXCEPT !.retry = TRUE, !.error = s.sends,
                                        !.estatus = status],
                              "respInt", BufferOn401))
     /\ UNCHANGED <<store, now, cfg, url, lastOk, isRefreshing, sharedFuture, failedRequestsQueue, posts,
                    failures, callbackCalls, sameToken>>

\* a 401 that is surfaced: no handler registered, or the request was retried
Response401Surface(p) ==
  LET s == proc[p]
  IN /\ s.pc = "sent"
     /\ ~(HandlerRegistered(cfg[s.api].reactOn401Responses)
            /\ ReactsOn401(401, RetryMarker(p)))
     /\ Upd(p, Finish(s, [NoResult EXCEPT !.kind = "rejected", !.status = 401,
                                         !.attempt = s.sends, !.via = "passed"]))
     /\ UNCHANGED <<store, now, cfg, url, lastOk, isRefreshing, sharedFuture, failedRequestsQueue, posts,
                    failures, callbackCalls, sameToken>>

\* `if (token) { originalRequest.headers = attach(...).headers; return API(originalRequest) }`
\* the resubmission passes through the request interceptor again
RespIntRetry(p) ==
  LET s == proc[p]
  IN /\ s.pc = "g_ret" /\ s.site = "respInt" /\ Resubmits(s.ret)
     /\ Upd(p, EnterGate([s EXCEPT !.hdr = attachAccessTokenToRequest(s.hdr, s.ret),
                                   !.got = IF s.path \in {"refresh", "wait"}
                                           THEN s.ret ELSE NoVal],
                         "reqInt", cfg[s.api].tokenExpiryBufferSeconds))
     /\ UNCHANGED <<store, now, cfg, url, lastOk, isRefreshing, sharedFuture, failedRequestsQueue, posts,
                    failures, callbackCalls, sameToken>>

\* `return Promise.reject(error)`: the error the handler was called with
RespIntReject(p) ==
  LET s == proc[p]
  IN /\ s.pc = "g_ret" /\ s.site = "respInt" /\ ~Resubmits(s.ret)
     /\ Upd(p, Finish(s, [NoResult EXCEPT !.kind = "rejected", !.status = s.estatus,
                                         !.attempt = s.error, !.via = "noToken"]))
     /\ UNCHANGED <<store, now, cfg, url, lastOk, isRefreshing, sharedFuture, failedRequestsQueue, posts,
                    failures, callbackCalls, sameToken>>

(* -------------------------------- clock -------------------------------- *)
\* The clock is read only where ensureFreshAccessToken resumes from reading the
\* access token; a tick between two readings is taken just before the later one.
Tick ==
  /\ now < MaxTime
  /\ \E p \in AllProcs : proc[p].pc = "g_decide"
  /\ now' = now + 1
  /\ UNCHANGED <<store, cfg, url, lastOk, isRefreshing, sharedFuture, failedRequestsQueue, proc, posts,
                 failures, callbackCalls, sameToken>>

(* ------------------------------ behaviours ----------------------------- *)
Next ==
  \/ \E p \in Procs : IsAuthCall(p, "A")
  \/ \E p \in Procs : IsAuthReturn(p)
  \/ \E p \in Procs, a \in SetAccessInputs, r \in SetRefreshInputs : SetCall(p, "A", a, r)
  \/ \E p \in Procs : SetSecond(p)
  \/ \E p \in Procs : SetReturn(p)
  \/ \E p \in Procs : DeleteCall(p, "A")
  \/ \E p \in Procs : DeleteSecond(p)
  \/ \E p \in Procs : DeleteReturn(p)
  \/ \E p \in Procs : GateNoToken(p)
  \/ \E p \in Procs : GateFresh(p)
  \/ \E p \in Procs : GateStartRefresh(p)
  \/ \E p \in Procs : GateEnqueue(p)
  \/ \E p \in Procs : WaiterResume(p)
  \/ \E p \in Procs : RefreshNoToken(p)
  \/ \E p \in Procs : RefreshPost(p)
  \/ \E p \in Procs : RefreshTransportError(p)
  \/ \E p \in Procs : \E body \in ResponseBodies(posts, now) : RefreshInvalidResponse(p, body)
  \/ \E p \in Procs : \E body \in ResponseBodies(posts, now) : RefreshStoreAccess(p, body)
  \/ \E p \in Procs : RefreshStoreRefresh(p)
  \/ \E p \in Procs : RefreshReturn(p)
  \/ \E p \in Procs, h \in CallerHeaders : RequestCall(p, "A", h)
  \/ \E p \in Procs : ReqIntReturn(p)
  \/ \E p \in Procs : Response2xx(p)
  \/ \E p \in Procs : ResponseOtherError(p)
  \/ \E p \in Procs : Response401React(p)
  \/ \E p \in Procs : Response401Surface(p)
  \/ \E p \in Procs : RespIntRetry(p)
  \/ \E p \in Procs : RespIntReject(p)
  \/ Tick

Spec == Init /\ [][Next]_vars

\* reactOn401Responses either way
SpecReact == InitWith(BOOLEAN) /\ url = NoUrl /\ [][Next]_vars

(* ------------------- callers of the gate on their own ------------------- *)
\* a non-empty string that is not a JWT with a numeric exp
Undecodable(n) == [k |-> "bad", exp |-> 0, id |-> n]

\* the refresh endpoint may also answer with an access token that the client's
\* clock already takes for expired, or with one that cannot be decoded
EndpointBodies(n, t) ==
  ResponseBodies(n, t) \cup {[accessToken |-> Jwt(0, n), refreshToken |-> Opaque(n)],
                             [accessToken |-> Undecodable(n), refreshToken |-> Opaque(n)]}

\* a step of the operation p inside ensureFreshAccessToken / refreshAuthToken
GateStep(p) ==
  \/ IsAuthReturn(p)
  \/ GateNoToken(p)
  \/ GateFresh(p)
  \/ GateStartRefresh(p)
  \/ GateEnqueue(p)
  \/ WaiterResume(p)
  \/ RefreshNoToken(p)
  \/ RefreshPost(p)
  \/ RefreshTransportError(p)
  \/ \E body \in EndpointBodies(posts, now) : RefreshInvalidResponse(p, body)
  \/ \E body \in EndpointBodies(posts, now) : RefreshStoreAccess(p, body)
  \/ RefreshStoreRefresh(p)
  \/ RefreshReturn(p)

\* two callers, each on either of two instances that share the storage keys
NextInstances ==
  \/ \E p \in Procs, i \in Instances : IsAuthCall(p, i)
  \/ \E p \in Procs : GateStep(p)
  \/ Tick

SpecInstances == Init /\ [][NextInstances]_vars

\* three callers on one instance
NextCallers ==
  \/ \E p \in AllProcs : IsAuthCall(p, "A")
  \/ \E p \in AllProcs : GateStep(p)
  \/ Tick

SpecCallers == Init /\ [][NextCallers]_vars

\* two callers on one instance
NextPair ==
  \/ \E p \in Procs : IsAuthCall(p, "A")
  \/ \E p \in Procs : GateStep(p)
  \/ Tick

\* every storage operation and every refresh network call settles, and every
\* continuation that can run is run
FairPair == Init /\ [][NextPair]_vars /\ \A p \in Procs : WF_vars(GateStep(p))

(* ------------------------------ properties ----------------------------- *)
\* C1: for one instance at most one call of refreshAuthToken is under way at any
\* moment, so at most one refresh network call is in flight; an operation that
\* waits in the queue waits for a refresh that is under way
C1_SingleRefreshInFlight ==
  \A i \in Instances :
    /\ Cardinality({p \in Procs : /\ proc[p].api = i
                                 /\ proc[p].pc \in {"r_gotrt", "r_net", "r_w1", "r_w2"}}) <= 1
    /\ failedRequestsQueue[i] # <<>> =>
         \E p \in Procs : proc[p].api = i /\ proc[p].pc \in {"r_gotrt", "r_net", "r_w1", "r_w2"}

\* the refresh call of one operation is in flight while another operation waits
C1_Witness ==
  \E p, q \in Procs :
    /\ p # q /\ proc[p].api = proc[q].api
    /\ proc[p].pc = "r_net" /\ proc[q].pc = "g_wait" /\ proc[q].wst = "pending"

\* C2: when every operation is a caller that found the same stale access token
\* (and no refresh failed), the refresh endpoint is called at most once, and
\* exactly once when all callers have finished
C2_ExactlyOneRefreshCall ==
  sameToken =>
    /\ posts <= 1
    /\ (\A p \in Procs : proc[p].pc = "done") => posts = 1

\* C3: a caller that waited for a refresh under way gets from the gate what the
\* refreshing caller got: the new access token, or null when the refresh failed
C3_WaiterSharesOutcome ==
  \A q \in Procs :
    (proc[q].pc = "g_ret" /\ proc[q].path = "wait") => proc[q].ret = proc[q].expect

\* the refresher and its waiter have both returned from the gate with the new token
C3_Witness ==
  \E p, q \in Procs :
    /\ p # q
    /\ proc[p].pc = "g_ret" /\ proc[p].path = "refresh"
    /\ proc[q].pc = "g_ret" /\ proc[q].path = "wait"
    /\ ~Falsy(proc[q].ret) /\ proc[q].ret = proc[p].ret

C5_AtMostOneResubmission ==
  \A p \in Procs :
    /\ proc[p].sends <= 2 /\ proc[p].result.sends <= 2
    /\ proc[p].sends = 2 => proc[p].retry
    /\ proc[p].site = "respInt" => (proc[p].retry /\ proc[p].sends = 1)
    /\ proc[p].result.attempt = 2 => proc[p].result.via = "passed"

\* the resubmitted request was answered 401 and that error was surfaced
C5_Witness ==
  \E p \in Procs :
    /\ proc[p].pc = "done" /\ proc[p].result.kind = "rejected"
    /\ proc[p].result.status = 401 /\ proc[p].result.attempt = 2
    /\ proc[p].result.sends = 2

\* C6: when the gate hands the 401 handler no token, the handler's next step
\* rejects with the 401 error of the original send, and the request is not sent
\* again
C6_NoTokenSurfacesOriginal401 ==
  [][\A p \in Procs :
       (/\ proc[p].pc = "g_ret" /\ proc[p].site = "respInt"
        /\ Falsy(proc[p].ret) /\ proc'[p] # proc[p]) =>
         /\ proc'[p].pc = "done"
         /\ proc'[p].result = [kind |-> "rejected", exp |-> 0, status |-> 401,
                               attempt |-> 1, sends |-> 1, via |-> "noToken"]]_vars

\* a refresh started by the 401 handler failed and the original 401 was surfaced
C6_Witness ==
  \E p \in Procs :
    /\ proc[p].pc = "done" /\ proc[p].result.via = "noToken"
    /\ proc[p].result.status = 401 /\ proc[p].result.sends = 1
    /\ failures > 0

\* C7: when the gate hands the request interceptor no token, the interceptor's
\* next step sends the request with the Authorization header it already had; on
\* the first send that is the caller's own header or none
C7_NoTokenSendsWithoutHeader ==
  [][\A p \in Procs :
       (/\ proc[p].pc = "g_ret" /\ proc[p].site = "reqInt"
        /\ Falsy(proc[p].ret) /\ proc'[p] # proc[p]) =>
         /\ proc'[p].pc = "sent"
         /\ proc'[p].sends = proc[p].sends + 1
         /\ proc'[p].hdr = proc[p].hdr
         /\ proc[p].sends = 0 => proc'[p].hdr \in CallerHeaders]_vars

\* two parallel requests shared a refresh that failed, and both were sent
\* without an Authorization header
C7_Witness ==
  \E p, q \in Procs :
    /\ proc[p].pc = "sent" /\ proc[p].path = "refresh" /\ Falsy(proc[p].ret)
    /\ proc[q].pc = "sent" /\ proc[q].path = "wait" /\ Falsy(proc[q].ret)
    /\ proc[p].hdr = NoVal /\ proc[q].hdr = NoVal

\* C8: the gate returns the stored token without a refresh exactly when the
\* remaining lifetime is strictly greater than the buffer; at the boundary
\* (lifetime = buffer) it attempts a refresh
C8_StrictBoundary ==
  \A p \in Procs :
    /\ proc[p].path = "fresh" => proc[p].tl > proc[p].buf
    /\ proc[p].path \in {"refresh", "wait"} => proc[p].tl <= proc[p].buf

\* a refresh was started for a token whose lifetime equalled a positive buffer
C8_Witness ==
  \E p \in Procs :
    /\ proc[p].path = "refresh" /\ proc[p].buf > 0 /\ proc[p].tl = proc[p].buf

\* C9: a refresh that fails (no stored refresh token, a rejected post, or a 2xx
\* answer lacking a token) has written nothing to storage
C9_FailedRefreshWritesNothing ==
  \A p \in Procs :
    /\ proc[p].pc \in {"r_w1", "r_w2"} => proc[p].cause = "none"
    /\ proc[p].cause # "none" => proc[p].rw = <<>>

\* a refresh failed on a 2xx answer lacking a token and wrote nothing
C9_Witness ==
  \E p \in Procs :
    /\ proc[p].pc = "g_ret" /\ proc[p].path = "refresh"
    /\ proc[p].cause = "invalidResponse" /\ proc[p].rw = <<>> /\ posts > 0

\* C10 as stated: a refresh that succeeded wrote exactly the endpoint's access
\* token under the access key and its refresh token under the refresh key,
\* storage held that pair when it returned, and the caller got the access token
C10_StorageHoldsPairOnReturn ==
  \A p \in Procs :
    (proc[p].pc = "g_ret" /\ proc[p].path = "refresh" /\ ~Falsy(proc[p].ret)) =>
      /\ proc[p].rw = << <<AccessKey(proc[p].api), proc[p].body.accessToken>>,
                         <<RefreshKey(proc[p].api), proc[p].body.refreshToken>> >>
      /\ proc[p].ret = proc[p].body.accessToken
      /\ proc[p].held

\* C10: as above, but storage holds the pair on return only if neither
\* setAuthTokens nor deleteAuthTokens wrote a key after the refresh wrote it
C10_WritesPairAndReturnsIt ==
  \A p \in Procs :
    (proc[p].pc = "g_ret" /\ proc[p].path = "refresh" /\ ~Falsy(proc[p].ret)) =>
      /\ proc[p].rw = << <<AccessKey(proc[p].api), proc[p].body.accessToken>>,
                         <<RefreshKey(proc[p].api), proc[p].body.refreshToken>> >>
      /\ proc[p].ret = proc[p].body.accessToken
      /\ ~proc[p].clob => proc[p].held

\* a refresh returned the new access token while storage held the new pair
C10_Witness ==
  \E p \in Procs :
    /\ proc[p].pc = "g_ret" /\ proc[p].path = "refresh" /\ proc[p].held
    /\ proc[p].ret.k = "jwt" /\ proc[p].ret.id > 0
    /\ getItem(AccessKey(proc[p].api)) = proc[p].ret

\* C11: while no refresh is under way (isRefreshing is false) the waiter queue
\* of the instance is empty; the queue holds exactly the callers whose promise
\* is still pending, so they are enqueued only while isRefreshing is true and
\* all of them are settled in the step that resets isRefreshing
C11_QueueEmptyUnlessRefreshing ==
  \A i \in Instances :
    /\ ~isRefreshing[i] => failedRequestsQueue[i] = <<>>
    /\ \A p \in Procs :
         (proc[p].api = i /\ proc[p].pc = "g_wait" /\ proc[p].wst = "pending")
           <=> (\E n \in 1..Len(failedRequestsQueue[i]) : failedRequestsQueue[i][n] = p)

\* a refresh has just settled: its waiter is released, the queue is empty and
\* isRefreshing is false
C11_Witness ==
  \E p \in Procs :
    /\ proc[p].pc = "g_wait" /\ proc[p].wst \in {"resolved", "rejected"}
    /\ failedRequestsQueue[proc[p].api] = <<>> /\ ~isRefreshing[proc[p].api]

\* C12: isRefreshing is true exactly while some call is inside refreshAuthToken:
\* once a refresh has settled, with either outcome, the flag is false again, so
\* the next caller that needs a refresh starts one itself
C12_RefreshingOnlyWhileRefreshRuns ==
  \A i \in Instances :
    isRefreshing[i] <=>
      \E p \in Procs : /\ proc[p].api = i
                       /\ proc[p].pc \in {"r_gotrt", "r_net", "r_w1", "r_w2"}

\* after a failed refresh another caller has started a refresh of its own
C12_Witness ==
  /\ failures > 0
  /\ \E p \in Procs : proc[p].pc = "r_net" /\ proc[p].path = "refresh"
  /\ posts = failures + 1

\* C13: a gate that read no access token returns null in its next step: it
\* does not enter refreshAuthToken (no read of the refresh token, no network
\* call) and changes neither storage nor the refresh state
C13_NoAccessTokenNoRefresh ==
  [][\A p \in Procs :
       (/\ proc[p].pc = "g_decide" /\ Falsy(proc[p].tok)
        /\ proc'[p] # proc[p]) =>
         /\ proc'[p].pc = "g_ret" /\ proc'[p].ret = NoVal
         /\ proc'[p].path = "null" /\ proc'[p].rtok = NoVal
         /\ posts' = posts /\ store' = store
         /\ isRefreshing' = isRefreshing
         /\ failedRequestsQueue' = failedRequestsQueue]_vars

\* the gate returned null although a valid refresh token is stored; nothing
\* was posted
C13_Witness ==
  \E p \in Procs :
    /\ proc[p].pc = "g_ret" /\ proc[p].path = "null" /\ proc[p].ret = NoVal
    /\ getItem(AccessKey(proc[p].api)) = NoVal
    /\ getItem(RefreshKey(proc[p].api)) = Opaque(0)
    /\ posts = 0 /\ \A q \in Procs \ {p} : proc[q].pc = "idle"

\* C14: a gate that read an access token which cannot be decoded, or has no
\* numeric exp, returns null in its next step: no error, no refresh call, and
\* storage and refresh state stay as they are
C14_UndecodableTokenNoRefresh ==
  [][\A p \in Procs :
       (/\ proc[p].pc = "g_decide" /\ proc[p].tok.k \in {"bad", "noexp"}
        /\ proc'[p] # proc[p]) =>
         /\ proc'[p].pc = "g_ret" /\ proc'[p].ret = NoVal
         /\ proc'[p].path = "null" /\ proc'[p].rtok = NoVal
         /\ posts' = posts /\ failures' = failures /\ store' = store
         /\ isRefreshing' = isRefreshing
         /\ failedRequestsQueue' = failedRequestsQueue]_vars

\* the gate returned null for a stored token without exp although a valid
\* refresh token is stored; nothing was posted
C14_Witness ==
  \E p \in Procs :
    /\ proc[p].pc = "g_ret" /\ proc[p].path = "null" /\ proc[p].ret = NoVal
    /\ getItem(AccessKey(proc[p].api)) = NoExpJwt
    /\ getItem(RefreshKey(proc[p].api)) = Opaque(0)
    /\ posts = 0 /\ failures = 0

\* C15: a refresh whose stored refresh token is missing or empty fails before
\* any network call: a call whose post is in flight or answered holds a
\* non-empty refresh token, and the gate whose refresh failed for want of one
\* has returned null without writing to storage; its caller then resolves with
\* null (isAuthenticated), sends the request with its header untouched (request
\* interceptor) or rejects (401 handler), without any post
C15_NoRefreshTokenNoPost ==
  /\ [](\A p \in Procs :
          /\ proc[p].pc \in {"r_net", "r_w1", "r_w2"} => ~Falsy(proc[p].rtok)
          /\ proc[p].cause = "noRefreshToken" =>
               /\ proc[p].pc = "g_ret" /\ proc[p].ret = NoVal
               /\ proc[p].werr = "NoRefreshToken" /\ proc[p].rw = <<>>)
  /\ [][\A p \in Procs :
          (proc[p].cause = "noRefreshToken" /\ proc'[p] # proc[p]) =>
            /\ posts' = posts
            /\ proc[p].site = "isAuth" =>
                 (proc'[p].pc = "done" /\ proc'[p].result.kind = "null")
            /\ proc[p].site = "reqInt" =>
                 (proc'[p].pc = "sent" /\ proc'[p].hdr = proc[p].hdr)
            /\ proc[p].site = "respInt" =>
                 (proc'[p].pc = "done" /\ proc'[p].result.kind = "rejected")]_vars

\* a refresh failed on an empty stored refresh token and nothing was ever posted
C15_Witness ==
  \E p \in Procs :
    /\ proc[p].pc = "g_ret" /\ proc[p].cause = "noRefreshToken"
    /\ getItem(RefreshKey(proc[p].api)) = EmptyStr
    /\ posts = 0 /\ failures = 1

\* C16: isAuthenticated always resolves: every failed refresh, and every
\* rejection received as a waiter, reaches it as null from the gate, and its
\* next step resolves with the claims of the token the gate returned, or with
\* null when the gate returned none
C16_IsAuthenticatedResolves ==
  /\ [](\A p \in Procs :
          /\ (proc[p].pc = "g_ret" /\ (proc[p].cause # "none" \/ proc[p].wst = "rejected"))
               => proc[p].ret = NoVal
          /\ (proc[p].pc = "done" /\ proc[p].op = "isAuth")
               => proc[p].result.kind \in {"claims", "null"})
  /\ [][\A p \in Procs :
          (proc[p].pc = "g_ret" /\ proc[p].site = "isAuth" /\ proc'[p] # proc[p]) =>
            /\ proc'[p].pc = "done"
            /\ proc'[p].result.kind = IF proc[p].ret.k = "jwt" THEN "claims" ELSE "null"
            /\ proc'[p].result.exp = proc[p].ret.exp]_vars

\* two isAuthenticated calls shared one posted refresh that failed: the
\* refresher and its waiter both resolved with null
C16_Witness ==
  /\ \A p \in Procs : /\ proc[p].pc = "done" /\ proc[p].op = "isAuth"
                      /\ proc[p].result.kind = "null"
  /\ posts = 1 /\ failures = 1

\* C17: onRefreshFailure has been invoked exactly as often as a refresh has
\* failed: once per failed refresh whatever the number of waiters, and not at
\* all for a refresh that succeeded or a gate that needed none
C17_OneCallbackPerFailedRefresh ==
  /\ callbackCalls = failures
  /\ (\A p \in Procs : proc[p].cause = "none" /\ proc[p].wst # "rejected")
       => \A p \in Procs : proc[p].cbErr = "none"

\* one refresh failed with a waiter queued behind it: one invocation
C17_Witness ==
  /\ failures = 1 /\ callbackCalls = 1
  /\ \E p, q \in Procs :
       /\ proc[p].pc = "g_ret" /\ proc[p].cause # "none"
       /\ proc[q].pc = "g_wait" /\ proc[q].wst = "rejected"

\* C18: the error handed to onRefreshFailure is the error that made the refresh
\* fail (missing refresh token, rejected post, invalid response), and the same
\* error the waiters of that refresh were rejected with
C18_CallbackGetsRawError ==
  \A p \in Procs :
    /\ proc[p].cause = "noRefreshToken" => proc[p].cbErr = "NoRefreshToken"
    /\ proc[p].cause = "transport" => proc[p].cbErr = "Transport"
    /\ proc[p].cause = "invalidResponse" => proc[p].cbErr = "InvalidResponse"
    /\ proc[p].cause # "none" => proc[p].werr = proc[p].cbErr
    /\ proc[p].wst = "rejected" => (proc[p].werr # "none" /\ proc[p].werr = proc[p].cbErr)

\* a refresh failed on an invalid response; the callback and the waiter got
\* that error
C18_Witness ==
  \E p, q \in Procs :
    /\ proc[p].cause = "invalidResponse" /\ proc[p].cbErr = "InvalidResponse"
    /\ proc[q].wst = "rejected" /\ proc[q].werr = "InvalidResponse"
    /\ proc[q].cbErr = "InvalidResponse"

\* C19: isAuthenticated called when setAuthTokens has completed and nothing
\* else runs reads the access token that was set; if its lifetime exceeds the
\* buffer, the gate's next step returns it with no post, no read of the refresh
\* token, and storage and refresh state unchanged, and isAuthenticated resolves
\* with its claims, whose exp lies in the future
C19_SetThenIsAuthenticated ==
  /\ [](\A p \in Procs :
          (proc[p].prev = {"set"} /\ proc[p].pc = "g_decide") =>
            /\ proc[p].tok \in SetAccessInputs
            /\ proc[p].tok = getItem(AccessKey(proc[p].api))
            /\ getItem(RefreshKey(proc[p].api)) \in SetRefreshInputs)
  /\ [][\A p \in Procs :
          /\ (/\ proc[p].prev = {"set"} /\ proc[p].pc = "g_decide"
              /\ proc[p].tok.k = "jwt" /\ proc[p].tok.exp - now > proc[p].buf
              /\ proc'[p] # proc[p]) =>
               /\ proc'[p].pc = "g_ret" /\ proc'[p].ret = proc[p].tok
               /\ proc'[p].path = "fresh" /\ proc'[p].rtok = NoVal
               /\ posts' = posts /\ posts = 0 /\ store' = store
               /\ isRefreshing' = isRefreshing /\ ~isRefreshing[proc[p].api]
               /\ failedRequestsQueue' = failedRequestsQueue
          /\ (/\ proc[p].prev = {"set"} /\ proc[p].pc = "g_ret"
              /\ proc[p].path = "fresh" /\ proc'[p] # proc[p]) =>
               /\ proc'[p].pc = "done" /\ proc'[p].result.kind = "claims"
               /\ proc'[p].result.exp = proc[p].ret.exp
               /\ proc'[p].result.exp > now
               /\ store' = store /\ posts' = posts]_vars

\* setAuthTokens, then isAuthenticated: the claims of the stored token, no post
C19_Witness ==
  \E p \in Procs :
    /\ proc[p].pc = "done" /\ proc[p].op = "isAuth" /\ proc[p].prev = {"set"}
    /\ proc[p].result.kind = "claims"
    /\ proc[p].result.exp = getItem(AccessKey(proc[p].api)).exp
    /\ proc[p].result.exp > now /\ posts = 0

\* C20: once deleteAuthTokens has completed, with nothing running but further
\* deleteAuthTokens calls or an isAuthenticated called after it, both tokens
\* are absent, also after a second call, which resolves like the first; an
\* isAuthenticated called after it reads no token, posts nothing and resolves
\* with null
C20_DeleteRemovesBothTokens ==
  /\ \A q \in Procs :
       (/\ proc[q].op = "delete" /\ proc[q].pc = "done"
        /\ \A p \in Procs \ {q} :
             \/ proc[p].pc = "idle"
             \/ proc[p].op = "delete"
             \/ proc[p].op = "isAuth" /\ proc[p].prev = {"delete"}) =>
         /\ getItem(AccessKey(proc[q].api)) = NoVal
         /\ getItem(RefreshKey(proc[q].api)) = NoVal
         /\ proc[q].result.kind = "void"
  /\ \A p \in Procs :
       (proc[p].op = "isAuth" /\ proc[p].prev = {"delete"}) =>
         /\ posts = 0 /\ proc[p].path \in {"none", "null"}
         /\ proc[p].pc = "g_decide" => proc[p].tok = NoVal
         /\ proc[p].pc = "done" => proc[p].result.kind = "null"

\* deleteAuthTokens was called twice; both calls resolved and nothing is stored
C20_Witness ==
  /\ \A q \in Procs : /\ proc[q].op = "delete" /\ proc[q].pc = "done"
                      /\ proc[q].result.kind = "void"
  /\ \A k \in Keys : k \in {DefaultAccessKey, DefaultRefreshKey} => getItem(k) = NoVal

\* C21: setAuthTokens(access, refresh) overwrites both entries.  Once both of its
\* writes are done and no other operation ran meanwhile (every other operation
\* is not started, or had completed before the call), storage holds the given
\* access token under the instance's access key and the given refresh token
\* under its refresh key, whatever was there before, and no other key has changed
C21_SetOverwritesBothEntries ==
  \A p \in Procs :
    ( /\ proc[p].op = "set" /\ proc[p].pc = "s_w2"
      /\ \A q \in Procs \ {p} :
            \/ proc[q].pc = "idle"
            \/ proc[q].pc = "done" /\ proc[p].prev # {} )
    => /\ store[cfg[proc[p].api].storageAccessTokenKey] = proc[p].argA
       /\ store[cfg[proc[p].api].storageRefreshTokenKey] = proc[p].argR
       /\ \A k \in Keys \ {cfg[proc[p].api].storageAccessTokenKey,
                            cfg[proc[p].api].storageRefreshTokenKey} :
             store[k] = Opaque(0)

\* setAuthTokens called after a refresh had stored its pair replaces both tokens
C21_Witness ==
  \E p \in Procs :
    /\ proc[p].op = "set" /\ proc[p].pc = "s_w2"
    /\ proc[p].prev # {} /\ posts = 1 /\ failures = 0
    /\ proc[p].argA = Jwt(1, 0) /\ proc[p].argR = EmptyStr
    /\ store[DefaultAccessKey] = Jwt(1, 0) /\ store[DefaultRefreshKey] = EmptyStr

C23_NoReactionWhenDisabled ==
  \A p \in Procs :
    ~cfg[proc[p].api].reactOn401Responses
    => /\ proc[p].site # "respInt"
       /\ ~proc[p].retry
       /\ proc[p].sends <= 1
       /\ (proc[p].pc = "done" /\ proc[p].result.kind = "rejected")
            => /\ proc[p].result.attempt = 1 /\ proc[p].result.sends = 1
               /\ proc[p].result.via = "passed"

\* a 401 surfaced with the option off, no refresh having been made
C23_Witness ==
  \E p \in Procs :
    /\ ~cfg[proc[p].api].reactOn401Responses
    /\ proc[p].pc = "done" /\ proc[p].op = "request"
    /\ proc[p].result.kind = "rejected" /\ proc[p].result.status = 401
    /\ proc[p].result.sends = 1 /\ posts = 0

\* C24: a successful response, and an error that is not a 401 (a network error
\* without a response included), pass through the response interceptor: the
\* handler (retry marker, gate, resubmission) is entered for a 401 only, and the
\* step that delivers any other answer to the caller changes neither storage nor
\* the refresh state and delivers the attempt that was just made
C24_OtherAnswersPassThrough ==
  /\ [](\A p \in Procs :
          /\ proc[p].site = "respInt" => proc[p].estatus = 401
          /\ proc[p].retry => proc[p].estatus = 401
          /\ (proc[p].pc = "done" /\ proc[p].result.status \in {200, 500, 0}
               /\ proc[p].result.kind \in {"response", "rejected"})
               => /\ proc[p].result.via = "passed"
                  /\ proc[p].result.attempt = proc[p].result.sends)
  /\ [][\A p \in Procs :
          (proc[p].pc = "sent" /\ proc'[p].pc = "done"
           /\ proc'[p].result.status # 401)
          => /\ store' = store /\ isRefreshing' = isRefreshing
             /\ failedRequestsQueue' = failedRequestsQueue
             /\ posts' = posts /\ failures' = failures
             /\ proc'[p].result.attempt = proc[p].sends
             /\ proc'[p].result.sends = proc[p].sends]_vars

\* a network error without a response and a success have both been delivered,
\* with nothing refreshed
C24_Witness ==
  \E p, q \in Procs :
    /\ proc[p].pc = "done" /\ proc[p].result.kind = "rejected"
    /\ proc[p].result.status = 0 /\ proc[p].result.sends = 1
    /\ proc[q].pc = "done" /\ proc[q].result.kind = "response"
    /\ proc[q].result.status = 200 /\ proc[q].result.sends = 1
    /\ posts = 0

\* C25 as stated: a request that was answered 401 and whose handler obtained a
\* token from a refresh that succeeded is resubmitted carrying that token and
\* not the header of the first attempt, and the caller receives the outcome of
\* the resubmission
C25_ResubmitsWithRefreshedToken ==
  \A p \in Procs :
    /\ (proc[p].pc = "sent" /\ proc[p].sends = 2 /\ ~Falsy(proc[p].got))
         => /\ proc[p].hdr = Bearer(proc[p].got)
            /\ proc[p].hdr # proc[p].hdr1
    /\ (proc[p].pc = "done" /\ proc[p].result.sends = 2) => proc[p].result.attempt = 2

\* C25 amended: the resubmission passes through the request interceptor again,
\* so it carries the token that the interceptor's gate returns then (the token
\* the handler attached stays when that gate returns null).  That is the token
\* produced by the handler's refresh, and differs from the header of the first
\* attempt, when nothing else wrote the tokens meanwhile: no setAuthTokens or
\* deleteAuthTokens and no further refresh.  The request is sent twice and the
\* caller receives the outcome of the second attempt
C25_ResubmitsWithGateToken ==
  \A p \in Procs :
    /\ (proc[p].pc = "sent" /\ proc[p].sends = 2 /\ ~Falsy(proc[p].got))
         => /\ proc[p].hdr = Bearer(IF Falsy(proc[p].ret) THEN proc[p].got
                                                           ELSE proc[p].ret)
            /\ ( /\ posts = 1
                 /\ \A q \in Procs \ {p} : proc[q].op \notin {"set", "delete"} )
                 => /\ proc[p].hdr = Bearer(proc[p].got)
                    /\ proc[p].hdr # proc[p].hdr1
    /\ proc[p].sends <= 2
    /\ (proc[p].pc = "done" /\ proc[p].result.sends = 2) => proc[p].result.attempt = 2

\* the first attempt carried the stored token, the handler refreshed, and the
\* resubmission carries the token of that refresh
C25_Witness ==
  \E p \in Procs :
    /\ proc[p].pc = "sent" /\ proc[p].sends = 2
    /\ proc[p].hdr1 = Bearer(Jwt(1, 0))
    /\ proc[p].got = Jwt(NewTokenExp, 1)
    /\ proc[p].hdr = Bearer(proc[p].got)
    /\ posts = 1

\* C26 as stated: every non-null token that ensureFreshAccessToken returns, by
\* whichever path, is decodable and has exp greater than the clock at the moment
\* of the return
C26_ReturnedTokenIsValid ==
  [][\A p \in AllProcs :
       (proc[p].pc # "g_ret" /\ proc'[p].pc = "g_ret" /\ ~Falsy(proc'[p].ret))
       => /\ decodeJWT(proc'[p].ret).ok
          /\ decodeJWT(proc'[p].ret).exp > now']_vars

\* C26 amended: a non-null token returned without a refresh is decodable and has
\* exp greater than the clock at the moment of the return; a non-null token
\* returned after the caller's own refresh is the access token the endpoint
\* answered with, and the one a waiter receives is the token its refresher
\* returned, neither being decoded or compared with the clock
C26_ReturnedTokenValidOrAsAnswered ==
  [][\A p \in AllProcs :
       (proc[p].pc # "g_ret" /\ proc'[p].pc = "g_ret" /\ ~Falsy(proc'[p].ret))
       => /\ proc'[p].path \in {"fresh", "refresh", "wait"}
          /\ proc'[p].path = "fresh"
               => /\ decodeJWT(proc'[p].ret).ok
                  /\ decodeJWT(proc'[p].ret).exp > now'
                  /\ proc'[p].ret = proc[p].tok
          /\ proc'[p].path = "refresh"
               => /\ proc'[p].ret = proc[p].body.accessToken
                  /\ proc[p].pc = "r_w2"
          /\ proc'[p].path = "wait"
               => /\ proc'[p].ret = proc[p].expect
                  /\ proc[p].wst = "resolved"]_vars

\* the three paths side by side: one caller returned the token of its refresh,
\* its waiter received the same token, and a third caller found that token in
\* storage and returned it as fresh
C26_Witness ==
  \E p, q, r \in AllProcs :
    /\ proc[p].pc = "g_ret" /\ proc[p].path = "refresh"
    /\ proc[p].ret = Jwt(NewTokenExp, 1)
    /\ proc[q].pc = "g_ret" /\ proc[q].path = "wait" /\ proc[q].ret = proc[p].ret
    /\ proc[r].pc = "g_ret" /\ proc[r].path = "fresh" /\ proc[r].ret = proc[p].ret
    /\ now > 0

\* C27: a request whose interceptor found the stored token stale and whose
\* refresh succeeded is not sent while the gate is deciding or refreshing; the
\* refresh returns only after writing the access token and then the refresh
\* token of the endpoint's answer, the token it returns is that access token and
\* not the one the caller had read, and the request is then sent once with the
\* Bearer of the returned token whatever Authorization header the caller had set
\* (a waiter sends the token its refresher returned)
C27_RefreshedTokenReplacesHeader ==
  /\ [](\A p \in Procs :
          (proc[p].site = "reqInt" /\ ~proc[p].retry
           /\ proc[p].pc \in {"g_decide", "r_gotrt", "r_net", "r_w1", "r_w2",
                               "g_wait", "g_ret"})
          => proc[p].sends = 0)
  /\ [][\A p \in Procs :
          /\ (proc[p].site = "reqInt" /\ proc[p].pc = "r_w2" /\ proc'[p].pc = "g_ret")
               => /\ proc[p].rw = << <<cfg[proc[p].api].storageAccessTokenKey,
                                       proc[p].body.accessToken>>,
                                     <<cfg[proc[p].api].storageRefreshTokenKey,
                                       proc[p].body.refreshToken>> >>
                  /\ proc'[p].ret = proc[p].body.accessToken
                  /\ proc'[p].ret # proc[p].tok
          /\ (proc[p].site = "reqInt" /\ proc[p].pc = "g_ret"
               /\ proc[p].path \in {"refresh", "wait"} /\ ~Falsy(proc[p].ret)
               /\ proc'[p] # proc[p])
               => /\ proc'[p].pc = "sent"
                  /\ proc'[p].sends = proc[p].sends + 1
                  /\ proc'[p].hdr = Bearer(proc[p].ret)
                  /\ proc[p].path = "wait" => proc[p].ret = proc[p].expect]_vars

\* about to be sent: the caller had set a header of its own, the refresh has
\* returned the endpoint's token and storage holds the new pair
C27_Witness ==
  \E p \in Procs :
    /\ proc[p].site = "reqInt" /\ proc[p].pc = "g_ret" /\ proc[p].sends = 0
    /\ proc[p].path = "refresh" /\ proc[p].hdr = CallerHeader
    /\ proc[p].ret = Jwt(NewTokenExp, 1)
    /\ store[DefaultAccessKey] = proc[p].ret /\ store[DefaultRefreshKey] = Opaque(1)

\* C28: a waiter returns only after the refresh it joined has settled, and
\* nothing else ends the wait.  As long as a refresh has not settled (from its
\* start, through the network call, to the return after its writes)
\* isRefreshing is true and every queued caller is suspended with its promise
\* pending; a caller whose promise is pending is in the queue of a refresh that
\* is under way; and a caller that has returned from waiting had its promise
\* settled.  Hence in a behaviour in which the network call never settles the
\* refreshing caller and its waiters stay suspended forever
C28_WaitersSuspendedUntilSettle ==
  /\ \A q \in AllProcs :
        proc[q].pc \in {"r_gotrt", "r_net", "r_w1", "r_w2"}
        => /\ isRefreshing[proc[q].api]
           /\ \A n \in 1..Len(failedRequestsQueue[proc[q].api]) :
                 /\ proc[failedRequestsQueue[proc[q].api][n]].pc = "g_wait"
                 /\ proc[failedRequestsQueue[proc[q].api][n]].wst = "pending"
  /\ \A p \in AllProcs :
        /\ (proc[p].pc = "g_wait" /\ proc[p].wst = "pending")
             => /\ \E n \in 1..Len(failedRequestsQueue[proc[p].api]) :
                      failedRequestsQueue[proc[p].api][n] = p
                /\ \E q \in AllProcs \ {p} :
                      /\ proc[q].api = proc[p].api
                      /\ proc[q].pc \in {"r_gotrt", "r_net", "r_w1", "r_w2"}
        /\ (proc[p].pc = "g_ret" /\ proc[p].path = "wait")
             => /\ proc[p].wst \in {"resolved", "rejected"}
                /\ \A n \in 1..Len(failedRequestsQueue[proc[p].api]) :
                      failedRequestsQueue[proc[p].api][n] # p

\* two callers wait, promises pending, while the refresh awaits its network call
C28_Witness ==
  \E q \in AllProcs :
    /\ proc[q].pc = "r_net" /\ isRefreshing[proc[q].api]
    /\ Len(failedRequestsQueue[proc[q].api]) = 2
    /\ \A p \in AllProcs \ {q} : proc[p].pc = "g_wait" /\ proc[p].wst = "pending"

\* C29: when every storage operation and every refresh network call settles
\* and every continuation is run, each call of ensureFreshAccessToken returns (a
\* token or null): a caller that is deciding, refreshing or waiting in the
\* queue, also one enqueued just before the refresh settles, eventually has its
\* result, and a caller in the queue is eventually out of it
C29_EveryDecisionTerminates ==
  \A p \in Procs :
    /\ (proc[p].pc \in {"g_decide", "r_gotrt", "r_net", "r_w1", "r_w2", "g_wait"})
         ~> (proc[p].pc = "g_ret")
    /\ (\E n \in 1..Len(failedRequestsQueue["A"]) : failedRequestsQueue["A"][n] = p)
         ~> (\A n \in 1..Len(failedRequestsQueue["A"]) : failedRequestsQueue["A"][n] # p)

\* a caller that was enqueued while the refresh was returning after its writes
\* has come back from the wait with the refreshed token
C29_Witness ==
  \E p, q \in Procs :
    /\ proc[p].pc = "g_ret" /\ proc[p].path = "wait" /\ proc[p].qpos = 1
    /\ proc[p].wst = "resolved" /\ proc[p].ret = Jwt(NewTokenExp, 1)
    /\ proc[q].pc = "g_ret" /\ proc[q].path = "refresh"
    /\ failedRequestsQueue["A"] = <<>> /\ ~isRefreshing["A"]

\* C30: the settle of a refresh releases all queued waiters in one step, in the
\* order in which they were enqueued.  The queue holds the waiters in the order
\* of their arrival; the step that settles one waiter's promise settles all of
\* the queue with the same outcome, the n-th entry as the n-th, and leaves the
\* queue empty, and no caller enters the queue in that step
C30_WaitersReleasedTogetherInOrder ==
  /\ [](/\ \A n \in 1..Len(failedRequestsQueue["A"]) :
              proc[failedRequestsQueue["A"][n]].qpos = n
         /\ \A p \in AllProcs :
              proc[p].wst \in {"resolved", "rejected"}
              => proc[p].rank = proc[p].qpos /\ proc[p].rank >= 1)
  /\ [][\A p \in AllProcs :
          (proc[p].wst = "pending" /\ proc'[p].wst # "pending")
          => /\ failedRequestsQueue'["A"] = <<>>
             /\ \E n \in 1..Len(failedRequestsQueue["A"]) :
                   failedRequestsQueue["A"][n] = p
             /\ \A n \in 1..Len(failedRequestsQueue["A"]) :
                   /\ proc'[failedRequestsQueue["A"][n]].wst = proc'[p].wst
                   /\ proc'[failedRequestsQueue["A"][n]].wval = proc'[p].wval
                   /\ proc'[failedRequestsQueue["A"][n]].rank = n
                   /\ proc'[failedRequestsQueue["A"][n]].pc = "g_wait"
             /\ \A r \in AllProcs :
                   proc'[r].pc = "g_wait" => proc[r].pc = "g_wait"]_vars

\* two waiters, enqueued first and second, have just been resolved as first and
\* second and neither has resumed yet
C30_Witness ==
  \E p, q \in AllProcs :
    /\ proc[p].pc = "g_wait" /\ proc[p].wst = "resolved"
    /\ proc[p].qpos = 1 /\ proc[p].rank = 1
    /\ proc[q].pc = "g_wait" /\ proc[q].wst = "resolved"
    /\ proc[q].qpos = 2 /\ proc[q].rank = 2
    /\ proc[p].wval = proc[q].wval
    /\ failedRequestsQueue["A"] = <<>> /\ ~isRefreshing["A"]

\* C31: only ensureFreshAccessToken changes the refresh state of an instance, and
\* each change is one step: the flag is set by a deciding caller that starts the
\* refresh, a deciding caller is appended to the queue, and the flag is cleared
\* together with the emptying of the queue by the caller whose refresh settles.
\* A step that writes storage (setAuthTokens, deleteAuthTokens, the two writes of
\* refreshAuthToken) and every other step leaves flag and queue as they are
C31_OnlyGateChangesRefreshState ==
  [][/\ (isRefreshing' # isRefreshing \/ failedRequestsQueue' # failedRequestsQueue)
        => \E p \in Procs :
             \/ /\ proc[p].pc = "g_decide" /\ proc'[p].pc = "r_gotrt"
                /\ ~isRefreshing[proc[p].api]
                /\ isRefreshing' = [isRefreshing EXCEPT ![proc[p].api] = TRUE]
                /\ failedRequestsQueue' = failedRequestsQueue
             \/ /\ proc[p].pc = "g_decide" /\ proc'[p].pc = "g_wait"
                /\ isRefreshing' = isRefreshing
                /\ failedRequestsQueue' =
                     [failedRequestsQueue EXCEPT ![proc[p].api] = Append(@, p)]
             \/ /\ proc[p].pc \in {"r_gotrt", "r_net", "r_w2"} /\ proc'[p].pc = "g_ret"
                /\ isRefreshing' = [isRefreshing EXCEPT ![proc[p].api] = FALSE]
                /\ failedRequestsQueue' =
                     [failedRequestsQueue EXCEPT ![proc[p].api] = <<>>]
     /\ store' # store
        => isRefreshing' = isRefreshing /\ failedRequestsQueue' = failedRequestsQueue
     /\ \A p \in Procs :
          (proc'[p] # proc[p] /\ proc'[p].op \in {"set", "delete"})
          => isRefreshing' = isRefreshing /\ failedRequestsQueue' = failedRequestsQueue]_vars

\* setAuthTokens is between its two writes while a refresh is between its own
\* two writes, the flag still set
C31_Witness ==
  \E p, q \in Procs :
    /\ proc[p].pc = "s_w1" /\ proc[q].pc = "r_w1"
    /\ isRefreshing["A"] /\ failedRequestsQueue["A"] = <<>>
    /\ store[DefaultAccessKey] = proc[q].body.accessToken

\* C32: storage is the only source of the token.  Every call of the gate starts
\* by reading the access token that storage holds at that moment; and a caller
\* that has read a token stored by a refresh (one the endpoint issued) whose
\* remaining lifetime exceeds the buffer returns that token in its next step
\* with no refresh call made and the refresh state untouched, whatever the
\* endpoint would answer
C32_StoredTokenIsReturned ==
  [][\A p \in Procs :
       /\ (proc[p].pc # "g_decide" /\ proc'[p].pc = "g_decide")
            => /\ proc'[p].tok = store[cfg[proc'[p].api].storageAccessTokenKey]
               /\ store' = store
       /\ (proc[p].pc = "g_decide" /\ proc'[p] # proc[p]
            /\ proc[p].tok.k = "jwt" /\ proc[p].tok.id >= 1
            /\ proc[p].tok.exp - now > proc[p].buf)
            => /\ proc'[p].pc = "g_ret" /\ proc'[p].ret = proc[p].tok
               /\ posts' = posts /\ failures' = failures
               /\ isRefreshing' = isRefreshing
               /\ failedRequestsQueue' = failedRequestsQueue]_vars

\* an isAuthenticated called after another operation's refresh had completed
\* has returned the stored token of that refresh; one refresh call was made
C32_Witness ==
  \E p \in Procs :
    /\ proc[p].op = "isAuth" /\ proc[p].prev # {} /\ proc[p].pc = "g_ret"
    /\ proc[p].path = "fresh" /\ proc[p].ret = Jwt(NewTokenExp, 1)
    /\ store[DefaultAccessKey] = proc[p].ret
    /\ posts = 1 /\ failures = 0 /\ now > 0

\* C33: the retry marker belongs to one request.  A request carries it only
\* after a 401 of its own first attempt, and, the handler being registered, a
\* 401 reaches the caller unhandled only as the answer to that request's own
\* second attempt, whatever other requests have been marked: each request
\* answered 401 gets a retry of its own, and only one
C33_RetryMarkerPerRequest ==
  \A p \in Procs :
    /\ proc[p].retry => proc[p].error = 1 /\ proc[p].estatus = 401
    /\ proc[p].sends <= 2
    /\ (proc[p].pc = "done" /\ proc[p].result.kind = "rejected"
         /\ proc[p].result.status = 401 /\ proc[p].result.via = "passed"
         /\ cfg[proc[p].api].reactOn401Responses)
         => proc[p].result.sends = 2 /\ proc[p].result.attempt = 2

\* two requests were each answered 401, each was resubmitted, and each
\* resubmission was answered 401 again
C33_Witness ==
  \E p, q \in Procs :
    /\ p # q
    /\ proc[p].pc = "done" /\ proc[p].result.status = 401 /\ proc[p].result.sends = 2
    /\ proc[q].pc = "done" /\ proc[q].result.status = 401 /\ proc[q].result.sends = 2

(* ---------------- C34: the queue and the shared promise ----------------- *)
\* refresh calls made in the shared-promise design
FutureCalls == sharedFuture["A"].calls + sharedFuture["B"].calls

\* C34: in every interleaving of callers the waiter queue of the code and the
\* design with one shared promise (created when a refresh starts, settled once
\* when it ends) agree: every caller takes the same course, returns the same
\* result (token or null), and the same number of refresh calls is made.
C34_QueueEquivalentToSharedFuture ==
  /\ \A p \in AllProcs :
       /\ proc[p].fpath = proc[p].path
       /\ proc[p].pc = "g_ret" => proc[p].fret = proc[p].ret
       /\ (proc[p].pc = "g_wait" /\ proc[p].wst = "pending") => proc[p].fst = "pending"
  /\ FutureCalls = posts

\* one caller refreshed, two waited on it, and all three hold the same token
\* in both designs after the one refresh call
C34_Witness ==
  /\ posts = 1 /\ FutureCalls = 1
  /\ proc[1].pc = "g_ret" /\ proc[1].path = "refresh" /\ proc[1].fret # NoVal
  /\ \A p \in {2, 3} :
       /\ proc[p].pc = "g_ret" /\ proc[p].path = "wait" /\ proc[p].fst = "settled"
       /\ proc[p].ret = proc[1].ret /\ proc[p].fret = proc[1].fret

(* --------------- C35: logout while a refresh is in flight --------------- *)
\* C35: when deleteAuthTokens has completed while a refresh was in flight (and
\* setAuthTokens is not called afterwards), storage holds neither an access
\* token nor a refresh token once that refresh has settled.
C35_NoTokensAfterLogoutDuringRefresh ==
  \A p \in Procs :
    (proc[p].pc = "g_ret" /\ proc[p].path = "refresh" /\ proc[p].loggedOut
       /\ \A q \in Procs \ {p} : proc[q].op = "delete" /\ proc[q].pc = "done")
    => /\ store[AccessKey(proc[p].api)] = NoVal
       /\ store[RefreshKey(proc[p].api)] = NoVal

(* ------------- C36: setAuthTokens interleaved with a refresh ------------ *)
\* C36: once setAuthTokens and an operation that refreshed have both completed,
\* the stored access token and refresh token belong to one pair: both were
\* written by the setAuthTokens call or both by one refresh (the tokens of
\* one refresh carry its number, those of setAuthTokens the number 0).
C36_StoredPairFromOneWriter ==
  \A p \in Procs :
    (/\ proc[p].op = "set" /\ posts >= 1
     /\ \A q \in Procs : proc[q].pc = "done")
    => store[AccessKey(proc[p].api)].id = store[RefreshKey(proc[p].api)].id

(* -------------- C37: a consumed refresh token is not re-sent ------------ *)
\* C37: within one instance and with no setAuthTokens call, every refresh call
\* sends the refresh token stored by the most recent successful refresh (the
\* one found at start-up before the first), so a refresh token consumed by a
\* successful refresh is never sent again.
C37_SendsLatestRefreshToken ==
  (\A q \in Procs : proc[q].op # "set" /\ proc[q].api \in {"none", "A"})
  => \A p \in Procs :
       proc[p].pc = "r_net" => proc[p].rtok = Opaque(lastOk)

\* a refresh has succeeded and consumed the first refresh token; a second
\* refresh call is in flight and sends the token the first one stored
C37_Witness ==
  /\ \A q \in Procs : proc[q].op # "set"
  /\ posts = 2 /\ lastOk = 1
  /\ \E p \in Procs : proc[p].pc = "r_net" /\ proc[p].rtok = Opaque(1)

(* --------------- C38: two instances on the same storage keys ------------ *)
\* the refresh calls in flight that send the token stored under key
SendingFrom(key) ==
  {p \in Procs : proc[p].pc = "r_net" /\ RefreshKey(proc[p].api) = key}

\* C38 as stated: for two instances configured with the same storage keys at
\* most one refresh call that uses the key pair is in flight at any time, so
\* the same stored refresh token is never sent by two overlapping calls.
C38_OneRefreshPerKeyPair ==
  \A key \in Keys : Cardinality(SendingFrom(key)) <= 1

\* C38, amended: at most one refresh is in flight per instance at any time;
\* refreshes of two instances are not ordered against each other, even when
\* the instances share their storage keys.
C38_OneRefreshPerInstance ==
  \A i \in Instances :
    Cardinality({p \in Procs : proc[p].api = i /\ RefreshInFlight(proc[p])}) <= 1

\* the refreshes of two instances on the same keys overlap and both send the
\* one stored refresh token
C38_Witness ==
  /\ RefreshKey("A") = RefreshKey("B") /\ AccessKey("A") = AccessKey("B")
  /\ proc[1].api # proc[2].api
  /\ proc[1].pc = "r_net" /\ proc[2].pc = "r_net"
  /\ proc[1].rtok = proc[2].rtok /\ proc[1].rtok = store[RefreshKey("A")]
  /\ posts = 2

(* ---------------- C39: a null result of isAuthenticated ----------------- *)
\* isAuthenticated call p returns null in this step
ReturnsNull(p) ==
  /\ proc[p].pc = "g_ret" /\ proc[p].site = "isAuth"
  /\ proc'[p].pc = "done" /\ proc'[p].result.kind = "null"

\* C39 as stated: whenever isAuthenticated returns null, that call has made no
\* storage writes.
C39_NullResultWroteNothing ==
  [][\A p \in AllProcs : ReturnsNull(p) => proc[p].rw = <<>>]_vars

\* C39, amended: whenever isAuthenticated returns null, either that call has
\* made no storage writes, or its own refresh succeeded and persisted the
\* answered pair, whose access token cannot be decoded.
C39_NullResultWroteNothingOrUndecodable ==
  [][\A p \in AllProcs :
       ReturnsNull(p)
       => \/ proc[p].rw = <<>>
          \/ /\ proc[p].path = "refresh" /\ proc[p].cause = "none"
             /\ proc[p].rw = <<<<AccessKey(proc[p].api), proc[p].ret>>,
                               <<RefreshKey(proc[p].api), proc[p].newR>>>>
             /\ ~Falsy(proc[p].ret) /\ ~decodeJWT(proc[p].ret).ok]_vars

\* both cases: one call returned null after its refresh failed and nothing was
\* written, another is about to return null holding an undecodable token that
\* its refresh has stored
C39_Witness ==
  \E p, q \in AllProcs :
    /\ proc[p].pc = "done" /\ proc[p].result.kind = "null" /\ failures >= 1
    /\ proc[q].pc = "g_ret" /\ proc[q].site = "isAuth" /\ proc[q].path = "refresh"
    /\ Len(proc[q].rw) = 2 /\ ~decodeJWT(proc[q].ret).ok
    /\ store[AccessKey("A")] = proc[q].ret

(* ------------------------------ C40: joinUrl ---------------------------- *)
\* initializeApiInstance: `joinUrl(baseUrl, refreshEndpoint)`
JoinUrlCall ==
  /\ url.pc = "called"
  /\ url' = [url EXCEPT !.out = joinUrl(url.baseUrl, url.path), !.pc = "done"]
  /\ UNCHANGED <<store, now, cfg, isRefreshing, failedRequestsQueue, proc, posts,
                 failures, callbackCalls, sameToken, sharedFuture, lastOk>>

NextJoin == JoinUrlCall

InitJoin == InitWith({TRUE}) /\ url \in UrlInputs

SpecJoin == InitJoin /\ [][NextJoin]_vars

\* the two parts of the URL: baseUrl without its trailing slash, path without
\* its leading slash
BasePart(baseUrl) ==
  IF endsWith(baseUrl, Slash) THEN SubSeq(baseUrl, 1, Len(baseUrl) - 1) ELSE baseUrl
PathPart(path) ==
  IF startsWith(path, Slash) THEN SubSeq(path, 2, Len(path)) ELSE path

\* C40: for a baseUrl with at most one trailing slash and a path with at most
\* one leading slash, joinUrl yields the two parts with exactly one '/' between
\* them, so the same URL whether or not baseUrl ends with '/' and whether or
\* not path starts with '/'.
C40_JoinUrlOneSlash ==
  url.pc = "done"
  => /\ url.out = BasePart(url.baseUrl) \o <<Slash>> \o PathPart(url.path)
     /\ ~endsWith(BasePart(url.baseUrl), Slash)
     /\ ~startsWith(PathPart(url.path), Slash)

\* a baseUrl that ends with '/' joined with a path that starts with '/'
C40_Witness ==
  /\ url.pc = "done"
  /\ url.baseUrl = <<"a", Slash>> /\ url.path = <<Slash, "b">>
  /\ url.out = <<"a", Slash, "b">>
====
